---- MODULE Spec2Model ----
(***************************************************************************)
(* A model of the stock client library (src/index.js): the lazily decoded  *)
(* Data envelope, the inbound /data and /signal routes, and the outbound   *)
(* register / start / stop / restart commands of the Client.               *)
(*                                                                         *)
(* JavaScript runs each call and each completion callback to its end       *)
(* before anything else runs, so every action below is one whole call or   *)
(* one whole completion callback.                                          *)
(***************************************************************************)
EXTENDS Integers, Sequences, FiniteSets, TLC

\* Bounds of the model.
MaxPush == 1
MaxPayloadCalls == 3
MaxUnknown == 1
MaxCalls == 2

VARIABLES
    handlers,    \* this._handlers: the error, status and data handler
    envelopes,   \* the Data instances constructed so far
    pushes,      \* what each inbound POST did, in order
    gunzips,     \* zlib.gunzip calls whose callback has not run yet
    ncalls,      \* number of payload() calls made so far
    dlog,        \* what payload() calls and their completions did, in order
    errcalls,    \* the calls on() made to the error handler, in order
    secret,      \* this._secret
    timeout,     \* this.timeout
    local,       \* this._local
    servUrl,     \* this._servUrl, the one URL object every request is built on
    calls        \* what each outbound operation did: requests, callbacks, throws

cvars == <<secret, timeout, local, servUrl, calls>>

dvars == <<handlers, envelopes, pushes, gunzips, ncalls, dlog, errcalls>>

vars == <<dvars, cvars>>

(***************************************************************************)
(* JavaScript values.  A JSON value is a record of its type and its        *)
(* canonical text, so that values of different types compare.              *)
(***************************************************************************)
JV(type, repr) == [type |-> type, repr |-> repr]

JsUndefined == JV("undefined", "undefined")

\* The values !!v turns into false, among those JSON.parse can return.
Falsy == {JsUndefined, JV("number", "0"), JV("boolean", "false"),
          JV("null", "null"), JV("string", "")}

Truthy(v) == v \notin Falsy

NoErr == "null"

(***************************************************************************)
(* The decoding chain of a payload.  A wire payload is the tuple of its    *)
(* encoding layers: <<"b64", "gz", text>> is the base64 text of the gzip   *)
(* of text.                                                                *)
(***************************************************************************)

\* new Buffer(s, 'base64'): never throws; characters outside the base64
\* alphabet decode to nothing.
Base64Decode(s) == IF Len(s) > 0 /\ s[1] = "b64" THEN Tail(s) ELSE <<>>

\* zlib.gunzip(buff, cb): the (err, buff) its callback receives.
Gunzip(bytes) ==
    IF Len(bytes) = 2 /\ bytes[1] = "gz"
    THEN [err |-> NoErr, out |-> bytes[2]]
    ELSE IF Len(bytes) = 0
    THEN [err |-> "Error: unexpected end of file", out |-> ""]
    ELSE [err |-> "Error: incorrect header check", out |-> ""]

\* buff.toString('ascii'): every byte with its high bit cleared.
ToAscii(text) ==
    IF text = "\"<C3><A9>\"" THEN "\"C)\"" ELSE text

\* JSON.parse(jsonStr): the value, or a SyntaxError thrown.
JSONParse(text) ==
    CASE text = " 0"       -> [ok |-> TRUE, value |-> JV("number", "0")]
      [] text = "false"    -> [ok |-> TRUE, value |-> JV("boolean", "false")]
      [] text = "null\n"   -> [ok |-> TRUE, value |-> JV("null", "null")]
      [] text = "\"\""     -> [ok |-> TRUE, value |-> JV("string", "")]
      [] text = "\"C)\""   -> [ok |-> TRUE, value |-> JV("string", "C)")]
      [] text = "[1, 2]"   -> [ok |-> TRUE, value |-> JV("array", "[1,2]")]
      [] OTHER             -> [ok |-> FALSE, value |-> JsUndefined]

\* The JSON texts pushed in payloads: the last one is no JSON text.
Texts == {" 0", "false", "null\n", "\"\"", "\"<C3><A9>\"", "[1, 2]", "{\"rows\": ["}

\* The payload strings of the pushes: gzip of a text, bytes that are no
\* gzip stream, and a string that is no base64.
WirePayloads ==
    {<<"b64", "gz", t>> : t \in Texts} \cup {<<"b64", "raw">>, <<"!!">>}


(***************************************************************************)
(* The Data envelope.                                                      *)
(***************************************************************************)

\* moment(json.when): never throws; a string it cannot read gives an
\* invalid moment.
Moment(when) ==
    IF when = "2024-03-05T09:30:00"
    THEN [valid |-> TRUE, year |-> 2024, month |-> 3, day |-> 5,
          hour |-> 9, minute |-> 30, second |-> 0]
    ELSE [valid |-> FALSE, year |-> 0, month |-> 0, day |-> 0,
          hour |-> 0, minute |-> 0, second |-> 0]

\* _.upperCase of lodash: the words of the string, upper-cased and joined
\* by single spaces.
UpperCase(t) ==
    CASE t = "ibm"   -> "IBM"
      [] t = "Aapl"  -> "AAPL"
      [] t = "brk.b" -> "BRK B"
      [] OTHER       -> t

NoBuff == [present |-> FALSE, bytes |-> <<>>]

\* The bodies of the POSTs to /data: a payload of every kind, ticker lists
\* of several lengths, a timestamp moment cannot read, and a body without
\* tickers.
GoodBody(p) ==
    [when |-> "2024-03-05T09:30:00", hasTickers |-> TRUE,
     tickers |-> <<"ibm", "brk.b", "ibm">>, payload |-> p]

DataBodies ==
    {GoodBody(p) : p \in WirePayloads}
    \cup {[GoodBody(<<"b64", "gz", "[1, 2]">>) EXCEPT !.tickers = t] :
             t \in {<<>>, <<"Aapl">>, <<"IBM", "ibm">>}}
    \cup {[GoodBody(<<"b64", "gz", "[1, 2]">>) EXCEPT !.when = "yesterday"],
          [GoodBody(<<"b64", "gz", "[1, 2]">>) EXCEPT !.hasTickers = FALSE,
                                                      !.tickers = <<>>]}

\* new Data(json): the instance, or the TypeError of json.tickers.map when
\* the body has no tickers.
DataCtor(json) ==
    IF ~json.hasTickers
    THEN [ok |-> FALSE, err |-> "TypeError: Cannot read property 'map' of undefined",
          data |-> [when |-> Moment(""), tickers |-> <<>>,
                    buff |-> NoBuff, decoded |-> JsUndefined]]
    ELSE [ok |-> TRUE, err |-> NoErr,
          data |-> [when |-> Moment(json.when),
                    tickers |-> [i \in 1..Len(json.tickers) |-> UpperCase(json.tickers[i])],
                    buff |-> [present |-> TRUE, bytes |-> Base64Decode(json.payload)],
                    decoded |-> JsUndefined]]

\* !!this._payload.buff: a Buffer is an object, so it is truthy whenever the
\* property is there, an empty Buffer included.
HasBuff(d) == d.buff.present

\* A payload() that decides by the decoded value instead of the buffer.
NeedsDecodeByValue(d) == ~Truthy(d.decoded)

\* The first test of payload(): whether to decompress.
NeedsDecode(d) == HasBuff(d)

\* The second test of payload(): whether to serve the memoized value.
HasDecoded(d) == Truthy(d.decoded)

\* A decode that forgets to release the buffer.
StoreDecodedKeepBuff(d, value) == [d EXCEPT !.decoded = value]

\* this._payload.decoded = JSON.parse(jsonStr); delete this._payload.buff
StoreDecoded(d, value) == [d EXCEPT !.decoded = value, !.buff = NoBuff]

\* A decode that releases the buffer before it parses.
ParseThrewReleased(d) == [d EXCEPT !.buff = NoBuff]

\* The instance after JSON.parse has thrown: the throw leaves the callback
\* before the assignment and before the delete, so nothing has changed.
ParseThrew(d) == d

\* One entry of dlog.
Ev(ev, call, inst, next, err, val) ==
    [ev |-> ev, call |-> call, inst |-> inst, next |-> next, err |-> err, val |-> val]

\* _.isFunction(next): "none" stands for a call without a callback, "fn"
\* for a callback of the application, "log" for the callback of the default
\* data handler.
IsFunction(next) == next # "none"

\* The callback of the default data handler reads payload.length, which
\* throws a TypeError when payload is undefined or null; a callback of the
\* application returns.
CallbackBody(call, inst, next, val) ==
    IF next = "log" /\ val.type \in {"undefined", "null"}
    THEN <<Ev("throw", call, inst, next,
              "TypeError: Cannot read property 'length'", JsUndefined)>>
    ELSE <<>>

\* next(err) or next(null, value) if next is a function; otherwise an error
\* is thrown and a value is dropped.
Deliver(call, inst, next, err, val) ==
    IF IsFunction(next)
    THEN <<Ev("cb", call, inst, next, err, val)>> \o CallbackBody(call, inst, next, val)
    ELSE IF err # NoErr THEN <<Ev("throw", call, inst, next, err, JsUndefined)>>
    ELSE <<>>

\* data.payload(next) up to its return, as call number c on instance i.
PayloadCall(c, i, d, next) ==
    IF NeedsDecode(d)
    THEN [gz |-> {[call |-> c, inst |-> i, bytes |-> d.buff.bytes, next |-> next]},
          log |-> <<Ev("call", c, i, next, NoErr, JsUndefined),
                    Ev("gunzip", c, i, next, NoErr, JsUndefined)>>]
    ELSE IF HasDecoded(d)
    THEN [gz |-> {},
          log |-> <<Ev("call", c, i, next, NoErr, JsUndefined)>>
                  \o (IF IsFunction(next)
                      THEN Deliver(c, i, next, NoErr, d.decoded) ELSE <<>>)]
    ELSE [gz |-> {},
          log |-> <<Ev("call", c, i, next, NoErr, JsUndefined)>>
                  \o Deliver(c, i, next,
                             "TypeError: No payload buffer or decoded value?",
                             JsUndefined)]

\* The application (or a data handler) calls data.payload(next).
payload(i, next) ==
    /\ ncalls < MaxPayloadCalls
    /\ i \in 1..Len(envelopes)
    /\ LET r == PayloadCall(ncalls + 1, i, envelopes[i], next)
       IN /\ gunzips' = gunzips \cup r.gz
          /\ dlog' = dlog \o r.log
    /\ ncalls' = ncalls + 1
    /\ UNCHANGED <<handlers, envelopes, pushes, errcalls, cvars>>

\* The callback zlib.gunzip was given runs, for the pending call g.
gunzipDone(g) ==
    /\ g \in gunzips
    /\ gunzips' = gunzips \ {g}
    /\ LET r == Gunzip(g.bytes)
           p == JSONParse(ToAscii(r.out))
       IN IF r.err # NoErr
          THEN /\ dlog' = dlog \o Deliver(g.call, g.inst, g.next, r.err, JsUndefined)
               /\ UNCHANGED envelopes
          ELSE IF ~p.ok
          THEN \* JSON.parse throws out of the callback: nothing after it runs
               /\ dlog' = dlog \o <<Ev("throw", g.call, g.inst, g.next,
                                       "SyntaxError: Unexpected end of JSON input",
                                       JsUndefined)>>
               /\ envelopes' = [envelopes EXCEPT ![g.inst] = ParseThrew(@)]
          ELSE /\ envelopes' = [envelopes EXCEPT
                                  ![g.inst] = StoreDecoded(@, p.value)]
               /\ dlog' = dlog \o <<Ev("decoded", g.call, g.inst, g.next, NoErr, p.value)>>
                               \o (IF IsFunction(g.next)
                                   THEN Deliver(g.call, g.inst, g.next, NoErr,
                                                envelopes'[g.inst].decoded)
                                   ELSE <<>>)
    /\ UNCHANGED <<handlers, pushes, ncalls, errcalls, cvars>>


(***************************************************************************)
(* The inbound routes and the handlers.                                    *)
(***************************************************************************)

\* A handler is the one the constructor supplies by default, one the
\* application gave with the configuration, or one installed by on().
DefaultHandler == "default"
ConfigHandler == "configured"
NewHandler == "installed"

\* resp.json({success: true})
Ack == [status |-> 200, body |-> "{\"success\":true}"]

\* What the host application's error handling answers when a route throws
\* before it has responded.
ServerError == [status |-> 500, body |-> "Internal Server Error"]

APush(route, steps, response, handler, inst, body, signal, thrown) ==
    [route |-> route, steps |-> steps, response |-> response,
     handler |-> handler, inst |-> inst, payload |-> body.payload,
     tickers |-> body.tickers, signal |-> signal, thrown |-> thrown]

\* A /signal body has none of the fields of a /data body.
NoData == [payload |-> <<>>, tickers |-> <<>>]

\* A handler of the application returns or throws; the default handlers
\* return.
HandlerThrows(h, outcome) == h # DefaultHandler /\ outcome = "throw"

\* A /data route that responds last: a throw before it leaves the answer to
\* the host application's error handling.
DataRouteLate(h, body, outcome, inst) ==
    LET ctor == DataCtor(body)
    IN IF ~ctor.ok
       THEN APush("/data", <<"construct">>, ServerError, "none", 0,
                  body, "", ctor.err)
       ELSE IF HandlerThrows(h, outcome)
       THEN APush("/data", <<"construct", "handler">>, ServerError, h, inst,
                  body, "", "Error: handler failed")
       ELSE APush("/data", <<"construct", "handler", "respond">>, Ack, h, inst,
                  body, "", NoErr)

\* Routes bound to the default handlers, whatever on() installed since.
RouteHandlerStale(hs, name) ==
    IF hs[name] = NewHandler THEN DefaultHandler ELSE hs[name]

\* handlers.data and handlers.status in the routes: handlers is the object
\* this._handlers itself, read when the push arrives.
RouteHandler(hs, name) == hs[name]

\* app.post('/data', ...): respond, construct the envelope, call the data
\* handler.  inst is the index the new envelope gets.
DataRoute(h, body, outcome, inst) ==
    LET ctor == DataCtor(body)
    IN IF ~ctor.ok
       THEN APush("/data", <<"respond", "construct">>, Ack, "none", 0,
                  body, "", ctor.err)
       ELSE APush("/data", <<"respond", "construct", "handler">>, Ack, h, inst,
                  body, "",
                  IF HandlerThrows(h, outcome) THEN "Error: handler failed" ELSE NoErr)

\* app.post('/signal', ...): respond, call the status handler.
SignalRoute(h, body, outcome) ==
    APush("/signal", <<"respond", "handler">>, Ack, h, 0, NoData,
          IF body.hasSignal THEN body.signal ELSE "undefined",
          IF HandlerThrows(h, outcome) THEN "Error: handler failed" ELSE NoErr)

SignalBodies == {[hasSignal |-> TRUE, signal |-> "start"],
                 [hasSignal |-> FALSE, signal |-> ""]}

Outcomes == {"return", "throw"}

\* A POST to /data arrives.  The default data handler calls data.payload
\* with a callback of its own.
postData(body, outcome) ==
    /\ Len(pushes) < MaxPush
    /\ LET h == RouteHandler(handlers, "data")
           inst == Len(envelopes) + 1
           ctor == DataCtor(body)
           call == ctor.ok /\ h = DefaultHandler
           r == PayloadCall(ncalls + 1, inst, ctor.data, "log")
       IN /\ call => ncalls < MaxPayloadCalls
          /\ outcome = "throw" => (ctor.ok /\ h # DefaultHandler)
          /\ pushes' = Append(pushes, DataRoute(h, body, outcome, inst))
          /\ envelopes' = IF ctor.ok THEN Append(envelopes, ctor.data) ELSE envelopes
          /\ gunzips' = IF call THEN gunzips \cup r.gz ELSE gunzips
          /\ dlog' = IF call THEN dlog \o r.log ELSE dlog
          /\ ncalls' = IF call THEN ncalls + 1 ELSE ncalls
    /\ UNCHANGED <<handlers, errcalls, cvars>>

\* A POST to /signal arrives.
postSignal(body, outcome) ==
    /\ Len(pushes) < MaxPush
    /\ outcome = "throw" => RouteHandler(handlers, "status") # DefaultHandler
    /\ pushes' = Append(pushes, SignalRoute(RouteHandler(handlers, "status"),
                                            body, outcome))
    /\ UNCHANGED <<handlers, envelopes, gunzips, ncalls, dlog, errcalls, cvars>>

EventNames == {"error", "status", "data", "bogus"}

\* An on() that throws the error of an unknown event instead of reporting it.
UnknownEventThrown(h, event) ==
    [event |-> event, calls |-> <<>>, thrown |-> "Error: Unknown event"]

\* The default branch of on(): the error handler h in place is called with
\* new Error('Unknown event: ' + event) as its one argument.
UnknownEvent(h, event) ==
    [event |-> event,
     calls |-> <<[handler |-> h, arg1 |-> <<"Error", "Unknown event: ", event>>]>>,
     thrown |-> NoErr]

\* The switch of on(): this._handlers after it.
SetHandler(hs, event, handler) ==
    CASE event = "error"  -> [hs EXCEPT !.error = handler]
      [] event = "status" -> [hs EXCEPT !.status = handler]
      [] event = "data"   -> [hs EXCEPT !.data = handler]
      [] OTHER            -> hs

\* client.on(event, handler) with a string and a function, which the
\* assertion lets through.
on(event, handler) ==
    /\ event \in {"error", "status", "data"} \/ Len(errcalls) < MaxUnknown
    /\ handlers' = SetHandler(handlers, event, handler)
    /\ errcalls' = IF event \in {"error", "status", "data"} THEN errcalls
                   ELSE Append(errcalls, UnknownEvent(handlers.error, event))
    /\ UNCHANGED <<envelopes, pushes, gunzips, ncalls, dlog, cvars>>

(***************************************************************************)
(* The outbound operations of the Client.                                  *)
(***************************************************************************)

\* config.locals.remote.timeout, as the documentation gives it.
DefaultTimeout == 15000

\* locals.remote.secret: left out, the empty string, or a token.
Secrets == {[defined |-> FALSE, value |-> ""],
            [defined |-> TRUE, value |-> ""],
            [defined |-> TRUE, value |-> "s3cret"]}

\* !this._secret
NoSecret(s) == ~s.defined \/ s.value = ""

NoError == [name |-> "null", msg |-> <<>>]

Err(name, msg) == [name |-> name, msg |-> msg]

SecretError ==
    Err("Error", <<"Secret is not specified, server requests are unavailable.">>)

\* A query object is undefined or a list of fields, each with a string or
\* undefined as its value.
NoQuery == [defined |-> FALSE, fields |-> <<>>]

Field(k, defined, v) == [k |-> k, defined |-> defined, v |-> v]

Query(fields) == [defined |-> TRUE, fields |-> fields]

\* querystring.stringify, as url.format calls it: every own field is written
\* as key=value, and a value that is undefined is written as the empty string.
QueryStringify(q) ==
    IF ~q.defined THEN <<>>
    ELSE [i \in 1..Len(q.fields) |->
             <<q.fields[i].k, IF q.fields[i].defined THEN q.fields[i].v ELSE "">>]

RECURSIVE SearchText(_)
SearchText(pairs) ==
    IF pairs = <<>> THEN ""
    ELSE pairs[1][1] \o "=" \o pairs[1][2]
         \o (IF Len(pairs) > 1 THEN "&" \o SearchText(Tail(pairs)) ELSE "")

\* url.format(urlObject): the parameters are kept as the receiver reads
\* them, without their percent-encoding.
UrlFormat(u) ==
    [text |-> u.base \o u.pathname
              \o (IF QueryStringify(u.query) = <<>> THEN ""
                  ELSE "?" \o SearchText(QueryStringify(u.query))),
     pathname |-> u.pathname,
     query |-> QueryStringify(u.query)]

\* A _remoteUrl whose merge skips an undefined query and so keeps the query
\* of the request before.
RemoteUrlKeepsQuery(u, path, query) ==
    LET v == [u EXCEPT !.pathname = path,
                       !.query = IF query.defined THEN query ELSE @]
    IN [url |-> v, uri |-> UrlFormat(v)]

\* _remoteUrl(path, query): _.extend writes pathname and query into
\* this._servUrl itself, then the object is formatted.
RemoteUrl(u, path, query) ==
    LET v == [u EXCEPT !.pathname = path, !.query = query]
    IN [url |-> v, uri |-> UrlFormat(v)]

\* A point in time given to restart, or none.
NoWhen == [isMoment |-> FALSE, year |-> 0, month |-> 0, day |-> 0,
           hour |-> 0, minute |-> 0, second |-> 0]

At(y, mo, d, h, mi, sec) ==
    [isMoment |-> TRUE, year |-> y, month |-> mo, day |-> d,
     hour |-> h, minute |-> mi, second |-> sec]

Whens == {NoWhen, At(2024, 3, 5, 9, 30, 0), At(2024, 3, 5, 15, 4, 5)}

Pad2(n) == IF n < 10 THEN "0" \o ToString(n) ELSE ToString(n)

\* The token hh of moment: the hour on the 12-hour clock, 01 to 12.
Hour12(h) == IF h % 12 = 0 THEN 12 ELSE h % 12

\* when.format('YYYY-MM-DD[T]hh:mm:ss')
FormatWhen(w) ==
    ToString(w.year) \o "-" \o Pad2(w.month) \o "-" \o Pad2(w.day) \o "T"
    \o Pad2(Hour12(w.hour)) \o ":" \o Pad2(w.minute) \o ":" \o Pad2(w.second)

\* What the transport gives the completion callback: an error, or a
\* response with a status and a body.
Responses ==
    {[err |-> Err("Error", <<"ETIMEDOUT">>), status |-> 0, body |-> ""],
     [err |-> NoError, status |-> 200, body |-> "OK"],
     [err |-> NoError, status |-> 403, body |-> "forbidden"]}

\* No response yet.
NoReply == [err |-> NoError, status |-> 0, body |-> ""]

\* util.inspect of a string
Inspect(body) == "'" \o body \o "'"

\* A connect that does not look at the status.
ConnectDoneNoStatus(req, r) == r.err

\* The error connect's completion callback ends with.
ConnectDone(req, r) ==
    IF r.err = NoError /\ r.status # 200
    THEN Err("Error", <<"Bad status code: ", ToString(r.status), "\nError: ",
                        req.uri.text, ", ", Inspect(r.body)>>)
    ELSE r.err

\* The error disconnect's completion callback ends with: the callback takes
\* err alone and reads no response.
DisconnectDone(req, r) == r.err

\* A command whose error message leaves the body out.
CommandDoneNoBody(req, r) ==
    IF r.err = NoError /\ r.status # 200
    THEN Err("Error", <<"Bad status code: ", ToString(r.status)>>)
    ELSE r.err

\* The error the completion callback of start, stop and restart ends with.
CommandDone(req, r) ==
    IF r.err = NoError /\ r.status # 200
    THEN Err("Error", <<"Bad status code: ", ToString(r.status), "\nError: ", r.body>>)
    ELSE r.err

\* if (_.isFunction(next)) next(err); else if (!!err) throw err;
Notify(c, next, err) ==
    IF IsFunction(next) THEN [c EXCEPT !.cbs = Append(@, err)]
    ELSE IF err # NoError THEN [c EXCEPT !.thrown = Append(@, err)]
    ELSE c

ACall(op, next, when) ==
    [op |-> op, next |-> next, when |-> when, requests |-> <<>>,
     pending |-> FALSE, response |-> NoReply, cbs |-> <<>>, thrown |-> <<>>]

Request(method, uri, json) ==
    [method |-> method, uri |-> uri, json |-> json, timeout |-> timeout]

NoJson == [hasHref |-> FALSE, verb |-> ""]

\* The secret test that start, stop and restart begin with: the call record
\* after it, and whether the operation goes on.  With a callback the error is
\* handed over and nothing returns; without one the throw ends the call.
SecretCheck(c) ==
    IF NoSecret(secret)
    THEN [call |-> Notify(c, c.next, SecretError), goesOn |-> IsFunction(c.next)]
    ELSE [call |-> c, goesOn |-> TRUE]

\* request.get({url: uri, timeout: this.timeout}, cb) of start, stop and
\* restart, after the secret test.
Command(c, path, query) ==
    LET chk == SecretCheck(c)
        u == RemoteUrl(servUrl, path, query)
    IN IF chk.goesOn
       THEN [call |-> [chk.call EXCEPT
                          !.requests = Append(@, Request("GET", u.uri, NoJson)),
                          !.pending = TRUE],
             url |-> u.url]
       ELSE [call |-> chk.call, url |-> servUrl]

TokenField == Field("token", secret.defined, secret.value)

\* client.connect(next)
connect(next) ==
    /\ Len(calls) < MaxCalls
    /\ LET u == RemoteUrl(servUrl, "/register", NoQuery)
           req == Request("PUT", u.uri, [hasHref |-> TRUE, verb |-> "POST"])
       IN /\ calls' = Append(calls, [ACall("connect", next, NoWhen) EXCEPT
                                        !.requests = <<req>>, !.pending = TRUE])
          /\ servUrl' = u.url
    /\ UNCHANGED <<secret, timeout, local, dvars>>

\* client.disconnect(next)
disconnect(next) ==
    /\ Len(calls) < MaxCalls
    /\ LET u == RemoteUrl(servUrl, "/register", NoQuery)
           req == Request("DELETE", u.uri, [hasHref |-> TRUE, verb |-> "POST"])
       IN /\ calls' = Append(calls, [ACall("disconnect", next, NoWhen) EXCEPT
                                        !.requests = <<req>>, !.pending = TRUE])
          /\ servUrl' = u.url
    /\ UNCHANGED <<secret, timeout, local, dvars>>

\* client.start(next)
start(next) ==
    /\ Len(calls) < MaxCalls
    /\ LET r == Command(ACall("start", next, NoWhen), "/serv/start",
                        Query(<<TokenField>>))
       IN /\ calls' = Append(calls, r.call)
          /\ servUrl' = r.url
    /\ UNCHANGED <<secret, timeout, local, dvars>>

\* client.stop(next)
stop(next) ==
    /\ Len(calls) < MaxCalls
    /\ LET r == Command(ACall("stop", next, NoWhen), "/serv/stop",
                        Query(<<TokenField>>))
       IN /\ calls' = Append(calls, r.call)
          /\ servUrl' = r.url
    /\ UNCHANGED <<secret, timeout, local, dvars>>

\* client.restart(next, when)
restart(next, when) ==
    /\ Len(calls) < MaxCalls
    /\ LET date == Field("date", when.isMoment,
                         IF when.isMoment THEN FormatWhen(when) ELSE "")
           r == Command(ACall("restart", next, when), "/serv/reset",
                        Query(<<TokenField, date>>))
       IN /\ calls' = Append(calls, r.call)
          /\ servUrl' = r.url
    /\ UNCHANGED <<secret, timeout, local, dvars>>

\* The error the completion callback of call c ends with, on response r.
DoneError(c, r) ==
    CASE c.op = "connect"    -> ConnectDone(c.requests[Len(c.requests)], r)
      [] c.op = "disconnect" -> DisconnectDone(c.requests[Len(c.requests)], r)
      [] OTHER               -> CommandDone(c.requests[Len(c.requests)], r)

\* The transport completes the request of call i and runs its callback.
requestDone(i, r) ==
    /\ i \in 1..Len(calls)
    /\ calls[i].pending
    /\ calls' = [calls EXCEPT
                    ![i] = Notify([@ EXCEPT !.pending = FALSE, !.response = r],
                                  @.next, DoneError(@, r))]
    /\ UNCHANGED <<secret, timeout, local, servUrl, dvars>>

\* After new Client(config), for the secret s of the configuration.
ClientConfig(s) ==
    /\ secret = s
    /\ timeout = DefaultTimeout
    /\ local = [protocol |-> "http:", port |-> 8080, pathname |-> "/client"]
    /\ servUrl = [base |-> "http://stock-server.example", pathname |-> "/",
                  query |-> NoQuery]
    /\ calls = <<>>

\* After new Client(config): the handlers are the configured ones or the
\* defaults, and no push has arrived.
InboundInit ==
    /\ handlers \in [{"error", "status", "data"} -> {DefaultHandler, ConfigHandler}]
    /\ envelopes = <<>>
    /\ pushes = <<>>
    /\ gunzips = {}
    /\ ncalls = 0
    /\ dlog = <<>>
    /\ errcalls = <<>>
    /\ ClientConfig([defined |-> FALSE, value |-> ""])

InboundNext ==
    \/ \E body \in DataBodies, o \in Outcomes : postData(body, o)
    \/ \E body \in SignalBodies, o \in Outcomes : postSignal(body, o)
    \/ \E g \in gunzips : gunzipDone(g)
    \/ \E e \in EventNames : on(e, NewHandler)

\* The inbound side of a client: pushes arrive, handlers are replaced, and
\* the decompressions the default data handler started complete.
SpecInbound == InboundInit /\ [][InboundNext]_vars

\* One envelope, constructed as the /data route constructs it and given to
\* a data handler of the application.
EnvelopeInit ==
    /\ handlers = [n \in {"error", "status", "data"} |-> ConfigHandler]
    /\ \E body \in DataBodies :
          /\ DataCtor(body).ok
          /\ envelopes = <<DataCtor(body).data>>
          /\ pushes = <<DataRoute(ConfigHandler, body, "return", 1)>>
    /\ gunzips = {}
    /\ ncalls = 0
    /\ dlog = <<>>
    /\ errcalls = <<>>
    /\ ClientConfig([defined |-> FALSE, value |-> ""])

EnvelopeNext ==
    \/ \E i \in 1..Len(envelopes), next \in {"none", "fn"} : payload(i, next)
    \/ \E g \in gunzips : gunzipDone(g)

\* The life of one Data envelope under any sequence of payload() calls.
SpecData == EnvelopeInit /\ [][EnvelopeNext]_vars


\* A client that no push has reached yet, with any secret.
ClientInit ==
    /\ \E s \in Secrets : ClientConfig(s)
    /\ handlers = [n \in {"error", "status", "data"} |-> DefaultHandler]
    /\ envelopes = <<>>
    /\ pushes = <<>>
    /\ gunzips = {}
    /\ ncalls = 0
    /\ dlog = <<>>
    /\ errcalls = <<>>

ClientNext ==
    \/ \E next \in {"none", "fn"} : connect(next)
    \/ \E next \in {"none", "fn"} : disconnect(next)
    \/ \E next \in {"none", "fn"} : start(next)
    \/ \E next \in {"none", "fn"} : stop(next)
    \/ \E next \in {"none", "fn"}, when \in Whens : restart(next, when)
    \/ \E i \in 1..Len(calls), r \in Responses : requestDone(i, r)

\* The outbound side of a client: operations are called and their requests
\* complete, in any order.
SpecClient == ClientInit /\ [][ClientNext]_vars


(***************************************************************************)
(* Properties.                                                             *)
(***************************************************************************)

Range(seq) == {seq[k] : k \in 1..Len(seq)}

Commands == {"start", "stop", "restart"}

\* The positions of dlog where instance i did ev.
Events(ev, i) == {k \in 1..Len(dlog) : dlog[k].ev = ev /\ dlog[k].inst = i}

\* The payload string instance i was constructed from.
WireOf(i) == (CHOOSE p \in Range(pushes) : p.route = "/data" /\ p.inst = i).payload

\* A payload that is the base64 of the gzip of a JSON text.
ValidPayload(w) ==
    /\ Gunzip(Base64Decode(w)).err = NoErr
    /\ JSONParse(ToAscii(Gunzip(Base64Decode(w)).out)).ok

\* Whether the decode of call c has run to its end.
Completed(c) == \A g \in gunzips : g.call # c

\* C1: with no secret configured, every start(cb), stop(cb) or restart(cb)
\* hands cb a configuration error and issues no HTTP request.
C1_NoSecretNoRequest ==
    \A i \in 1..Len(calls) :
        (calls[i].op \in Commands /\ IsFunction(calls[i].next) /\ NoSecret(secret))
        => /\ calls[i].cbs # <<>>
           /\ calls[i].cbs[1] = SecretError
           /\ calls[i].requests = <<>>

\* C2: on one Data instance decompression is started at most once, whatever
\* the payload() calls and however they overlap.
C2_GunzipAtMostOnce ==
    \A i \in 1..Len(envelopes) : Cardinality(Events("gunzip", i)) <= 1

\* C3: for a valid payload, a payload(cb) call and a second payload(cb) made
\* after the first callback fired both receive (null, v) with the same v.
C3_SecondCallSameValue ==
    \A k1 \in 1..Len(dlog), k2 \in 1..Len(dlog) :
        ( /\ k1 < k2
          /\ dlog[k1].ev = "cb" /\ dlog[k1].next = "fn"
          /\ dlog[k2].ev = "call" /\ dlog[k2].next = "fn"
          /\ dlog[k1].inst = dlog[k2].inst
          /\ ValidPayload(WireOf(dlog[k1].inst)) )
        => /\ dlog[k1].err = NoErr
           /\ \E k3 \in (k2 + 1)..Len(dlog) :
                 /\ dlog[k3].ev = "cb" /\ dlog[k3].call = dlog[k2].call
                 /\ dlog[k3].err = NoErr
                 /\ dlog[k3].val = dlog[k1].val

\* C4: once a decode has succeeded on an instance and released its buffer,
\* no later payload() call on that instance starts a decompression.
C4_NoDecompressAfterDecode ==
    \A i \in 1..Len(envelopes) :
        \A k1 \in Events("decoded", i), k2 \in Events("gunzip", i) : k2 < k1

\* A payload() call was made after a successful decode of the instance.
C4_Witness ==
    \E i \in 1..Len(envelopes) :
        /\ ~HasBuff(envelopes[i])
        /\ \E k1 \in Events("decoded", i), k2 \in Events("call", i) : k1 < k2

\* The decoded value is stored: a value JSON.parse returned is in the field.
IsDecoded(d) == d.decoded # JsUndefined

\* C5: an instance holds exactly one of the compressed buffer and the
\* decoded value; it starts with the buffer, and it moves to the decoded
\* value on the first successful decode, once, and never back.
C5_ExactlyOneState ==
    /\ \A i \in 1..Len(envelopes) : HasBuff(envelopes[i]) /\ ~IsDecoded(envelopes[i])
    /\ [](\A i \in 1..Len(envelopes) : HasBuff(envelopes[i]) # IsDecoded(envelopes[i]))
    /\ [][\A i \in 1..Len(envelopes) :
            /\ IsDecoded(envelopes[i])
               => /\ IsDecoded(envelopes'[i]) /\ ~HasBuff(envelopes'[i])
                  /\ envelopes'[i].decoded = envelopes[i].decoded
            /\ (~IsDecoded(envelopes[i]) /\ IsDecoded(envelopes'[i]))
               <=> (Events("decoded", i) = {} /\ Events("decoded", i)' # {})]_vars

\* A second decompression of an instance completed after the first had
\* stored the value.
C5_Witness ==
    \E i \in 1..Len(envelopes) :
        /\ IsDecoded(envelopes[i]) /\ ~HasBuff(envelopes[i])
        /\ Cardinality(Events("decoded", i)) >= 2

\* C6: when payload(cb) is called on an instance holding its buffer and the
\* decode fails, in gunzip or in the JSON parse, cb receives an error and no
\* decoded value is stored.
C6_DecodeFailureReported ==
    \A k \in 1..Len(dlog) :
        ( /\ dlog[k].ev = "gunzip" /\ dlog[k].next = "fn"
          /\ Completed(dlog[k].call)
          /\ ~ValidPayload(WireOf(dlog[k].inst)) )
        => /\ \E k2 \in (k + 1)..Len(dlog) :
                 /\ dlog[k2].ev = "cb" /\ dlog[k2].call = dlog[k].call
                 /\ dlog[k2].err # NoErr
           /\ ~IsDecoded(envelopes[dlog[k].inst])

\* C7: connect(cb) calls cb exactly once: with the transport error if the
\* request failed, with an error naming the status if it is not 200, and
\* with no error if it is 200.
C7_ConnectCallback ==
    \A i \in 1..Len(calls) :
        (calls[i].op = "connect" /\ IsFunction(calls[i].next))
        => LET c == calls[i]
               r == c.response
           IN /\ c.thrown = <<>>
              /\ c.pending => c.cbs = <<>>
              /\ ~c.pending =>
                    /\ Len(c.cbs) = 1
                    /\ r.err # NoError => c.cbs[1] = r.err
                    /\ (r.err = NoError /\ r.status # 200)
                       => /\ c.cbs[1] \notin {NoError, r.err}
                          /\ ToString(r.status) \in Range(c.cbs[1].msg)
                    /\ (r.err = NoError /\ r.status = 200) => c.cbs[1] = NoError

\* A connect(cb) whose request was answered with a status other than 200.
C7_Witness ==
    \E i \in 1..Len(calls) :
        /\ calls[i].op = "connect" /\ IsFunction(calls[i].next)
        /\ ~calls[i].pending
        /\ calls[i].response.err = NoError /\ calls[i].response.status # 200

\* C8: disconnect(cb) has the error contract of connect(cb): an error for a
\* status other than 200, the transport error passed on, and no error only
\* for status 200.
C8_DisconnectCallback ==
    \A i \in 1..Len(calls) :
        (calls[i].op = "disconnect" /\ IsFunction(calls[i].next) /\ ~calls[i].pending)
        => LET c == calls[i]
               r == c.response
           IN /\ Len(c.cbs) = 1
              /\ r.err # NoError => c.cbs[1] = r.err
              /\ (r.err = NoError /\ r.status # 200) => c.cbs[1] # NoError
              /\ c.cbs[1] = NoError => (r.err = NoError /\ r.status = 200)

\* C9: with a secret, start(cb), stop(cb) and restart(cb) give cb an error
\* exactly when the transport failed or the status is not 200, and for a
\* status other than 200 the message holds the status and the body.
C9_CommandCallback ==
    \A i \in 1..Len(calls) :
        ( /\ calls[i].op \in Commands /\ IsFunction(calls[i].next)
          /\ ~NoSecret(secret) /\ ~calls[i].pending )
        => LET c == calls[i]
               r == c.response
           IN /\ Len(c.cbs) = 1
              /\ (c.cbs[1] # NoError) <=> (r.err # NoError \/ r.status # 200)
              /\ (r.err = NoError /\ r.status # 200)
                 => /\ ToString(r.status) \in Range(c.cbs[1].msg)
                    /\ r.body \in Range(c.cbs[1].msg)

\* A restart(cb) with a secret that was answered 403 "forbidden".
C9_Witness ==
    \E i \in 1..Len(calls) :
        /\ calls[i].op = "restart" /\ IsFunction(calls[i].next)
        /\ ~NoSecret(secret) /\ ~calls[i].pending
        /\ calls[i].response.status = 403 /\ calls[i].response.body = "forbidden"

\* The position of step in the steps of push p, 0 if it was not done.
StepAt(p, step) ==
    IF step \in Range(p.steps)
    THEN CHOOSE k \in 1..Len(p.steps) : p.steps[k] = step
    ELSE 0

\* C10: every POST to /data or /signal is answered {success: true} before
\* the envelope is constructed and before the handler is called, so a
\* failure of either leaves the answer as it was sent.
C10_AckBeforeHandler ==
    \A n \in 1..Len(pushes) :
        LET p == pushes[n]
        IN /\ StepAt(p, "respond") = 1
           /\ \A step \in {"construct", "handler"} :
                 step \in Range(p.steps) => StepAt(p, "respond") < StepAt(p, step)
           /\ p.response = Ack

\* A /data push whose envelope construction or handler threw.
C10_Witness ==
    \E n \in 1..Len(pushes) :
        /\ pushes[n].route = "/data"
        /\ pushes[n].thrown # NoErr
        /\ "construct" \in Range(pushes[n].steps)


ValidBase64(w) == Len(w) > 0 /\ w[1] = "b64"

\* C12: constructing a Data envelope fails when the timestamp cannot be
\* read or the payload is not base64: no envelope is produced from such a
\* body, and so no data handler is called with one.
C12_ConstructionValidates ==
    \A n \in 1..Len(pushes) :
        (pushes[n].route = "/data" /\ pushes[n].inst # 0)
        => /\ ValidBase64(pushes[n].payload)
           /\ envelopes[pushes[n].inst].when.valid


\* The decompression started at position k of dlog has run and failed, in
\* gunzip or in the JSON parse.
DecodeFailed(k) ==
    /\ dlog[k].ev = "gunzip"
    /\ Completed(dlog[k].call)
    /\ ~ValidPayload(WireOf(dlog[k].inst))

\* The errors call c of an outbound operation has met so far.
ErrorsOf(c) ==
    (IF c.op \in Commands /\ NoSecret(secret) THEN {"secret"} ELSE {})
    \cup (IF ~c.pending /\ c.requests # <<>> /\ c.response.err # NoError
          THEN {"transport"} ELSE {})
    \cup (IF ~c.pending /\ c.requests # <<>> /\ c.response.err = NoError
             /\ c.response.status # 200 /\ c.op # "disconnect"
          THEN {"status"} ELSE {})

\* The error convention on the payload() side.
C13_PayloadConvention ==
    /\ \A k \in 1..Len(dlog) : dlog[k].ev = "throw" => ~IsFunction(dlog[k].next)
    /\ \A k \in 1..Len(dlog) :
          DecodeFailed(k)
          => \E k2 \in (k + 1)..Len(dlog) :
                /\ dlog[k2].call = dlog[k].call
                /\ dlog[k2].err # NoErr
                /\ dlog[k2].ev = (IF IsFunction(dlog[k].next) THEN "cb" ELSE "throw")

\* The error convention on the side of the outbound operations.
C13_OperationConvention ==
    \A i \in 1..Len(calls) :
        LET c == calls[i]
            got == IF IsFunction(c.next) THEN c.cbs ELSE c.thrown
        IN /\ IsFunction(c.next) => c.thrown = <<>>
           /\ ~IsFunction(c.next) => c.cbs = <<>>
           /\ Cardinality({k \in 1..Len(got) : got[k] # NoError})
                 = Cardinality(ErrorsOf(c))

\* C13: in payload, connect, disconnect, start, stop and restart an error
\* is thrown when no callback was given, and is handed to the callback as
\* its first argument, and not thrown, when one was given.
C13_CallbackOrThrow == C13_PayloadConvention /\ C13_OperationConvention


\* The upper-cased form of a ticker: its letters in upper case, everything
\* else as it is.
ToUpperCase(t) ==
    CASE t = "ibm"   -> "IBM"
      [] t = "Aapl"  -> "AAPL"
      [] t = "brk.b" -> "BRK.B"
      [] OTHER       -> t

\* C14: the tickers of an envelope are the tickers of the body it was
\* constructed from, each upper-cased and otherwise unchanged, in the same
\* order and number, duplicates included.
C14_TickersUppercased ==
    \A n \in 1..Len(pushes) :
        (pushes[n].route = "/data" /\ pushes[n].inst # 0)
        => LET in == pushes[n].tickers
               out == envelopes[pushes[n].inst].tickers
           IN /\ Len(out) = Len(in)
              /\ \A i \in 1..Len(in) : out[i] = ToUpperCase(in[i])


\* The values the parameter named key has in the URI of a request.
Param(req, key) ==
    {req.uri.query[k][2] : k \in {j \in 1..Len(req.uri.query) : req.uri.query[j][1] = key}}

\* A point in time written as YYYY-MM-DDThh:mm:ss, with the hour of the day
\* from 00 to 23.
DateAndTime(w) ==
    ToString(w.year) \o "-" \o Pad2(w.month) \o "-" \o Pad2(w.day) \o "T"
    \o Pad2(w.hour) \o ":" \o Pad2(w.minute) \o ":" \o Pad2(w.second)

\* C15: the /serv/reset request of restart(cb, when) has a date parameter
\* exactly when a point in time was given, and the parameter is then that
\* point's date and time of day, for every hour of the day.
C15_RestartDate ==
    \A i \in 1..Len(calls) :
        (calls[i].op = "restart" /\ calls[i].requests # <<>>)
        => LET req == calls[i].requests[1]
               w == calls[i].when
           IN /\ req.uri.pathname = "/serv/reset"
              /\ w.isMoment <=> Param(req, "date") # {}
              /\ w.isMoment => Param(req, "date") = {DateAndTime(w)}


\* The positions of dlog where the JSON parse of instance i threw.
ParseFailures(i) ==
    {k \in Events("throw", i) : dlog[k].err = "SyntaxError: Unexpected end of JSON input"}

\* The payload() calls on instance i made after position k of dlog.
CallsAfter(i, k) == {k2 \in Events("call", i) : k2 > k}

\* The call at position k of dlog went on to start a decompression.
StartedGunzip(k) ==
    /\ k < Len(dlog)
    /\ dlog[k + 1].ev = "gunzip" /\ dlog[k + 1].call = dlog[k].call

\* The call at position k of dlog ended with the invalid-state error.
InvalidState(k) ==
    /\ k < Len(dlog)
    /\ dlog[k + 1].call = dlog[k].call
    /\ dlog[k + 1].err = "TypeError: No payload buffer or decoded value?"

\* C16, as claimed: after a payload() whose decompression succeeded and whose
\* JSON parse failed, the instance holds neither the buffer nor a decoded
\* value, and every later payload() fails with the invalid-state error
\* without starting a decompression.
C16_ParseFailureExhausts ==
    \A i \in 1..Len(envelopes) :
        \A k \in ParseFailures(i) :
            /\ ~HasBuff(envelopes[i]) /\ ~IsDecoded(envelopes[i])
            /\ \A k2 \in CallsAfter(i, k) : InvalidState(k2) /\ ~StartedGunzip(k2)

\* C16, amended: after a payload() whose decompression succeeded and whose
\* JSON parse failed, the instance still holds its buffer and no decoded
\* value, and every later payload() starts a decompression again and none
\* fails with the invalid-state error.
C16_ParseFailureKeepsBuffer ==
    \A i \in 1..Len(envelopes) :
        \A k \in ParseFailures(i) :
            /\ HasBuff(envelopes[i]) /\ ~IsDecoded(envelopes[i])
            /\ \A k2 \in CallsAfter(i, k) : StartedGunzip(k2) /\ ~InvalidState(k2)

\* A payload() call was made after the JSON parse of the instance had
\* thrown.
C16_Witness ==
    \E i \in 1..Len(envelopes) :
        \E k \in ParseFailures(i) : CallsAfter(i, k) # {}


\* C17: no operation changes the configuration: the base URL the endpoint
\* getter returns, the local address, the secret and the timeout stay as
\* the constructor set them.
C17_ConfigurationUnchanged ==
    [][/\ servUrl' = servUrl
       /\ local' = local
       /\ secret' = secret
       /\ timeout' = timeout]_vars


HandlerNames == {"error", "status", "data"}

\* The handler a push of the given route is for.
NameOf(route) == IF route = "/data" THEN "data" ELSE "status"

\* C18: on(name, h) with name among error, status and data replaces the
\* named handler and leaves the other two as they are, and every push that
\* arrives afterwards goes to the handler in place when it arrives.
C18_HandlersReplaced ==
    /\ [](\A name \in HandlerNames :
            SetHandler(handlers, name, NewHandler)
               = [n \in HandlerNames |->
                     IF n = name THEN NewHandler ELSE handlers[n]])
    /\ [][/\ Cardinality({n \in HandlerNames : handlers'[n] # handlers[n]}) <= 1
          /\ Len(pushes') > Len(pushes)
             => LET p == pushes'[Len(pushes')]
                IN /\ handlers' = handlers
                   /\ "handler" \in Range(p.steps)
                      => p.handler = handlers[NameOf(p.route)]]_vars

\* A push went to a handler that on() had installed after construction.
C18_Witness ==
    \E n \in 1..Len(pushes) :
        /\ "handler" \in Range(pushes[n].steps)
        /\ pushes[n].handler = NewHandler


\* C19: one call of connect, disconnect, start, stop or restart issues at
\* most one HTTP request, and calls the callback it was given exactly once,
\* with or without a secret.
C19_OneRequestOneCallback ==
    \A i \in 1..Len(calls) :
        /\ Len(calls[i].requests) <= 1
        /\ IsFunction(calls[i].next)
           => /\ Len(calls[i].cbs) <= 1
              /\ ~calls[i].pending => Len(calls[i].cbs) = 1


\* The names of the parameters in the URI of a request.
ParamNames(req) == {req.uri.query[k][1] : k \in 1..Len(req.uri.query)}

\* The path the requests of an operation go to.
PathOf(op) ==
    CASE op \in {"connect", "disconnect"} -> "/register"
      [] op = "start"                     -> "/serv/start"
      [] op = "stop"                      -> "/serv/stop"
      [] OTHER                            -> "/serv/reset"

\* C20: the URI of a request depends on the operation and its arguments
\* alone, whatever was called before on the shared URL object: a /register
\* request has no token and no date, a /serv/start or /serv/stop request has
\* the token alone, and a restart carries no date but its own.
C20_UriFromOwnArguments ==
    /\ \A i \in 1..Len(calls) :
          calls[i].requests # <<>>
          => LET c == calls[i]
                 req == c.requests[1]
             IN /\ req.uri.pathname = PathOf(c.op)
                /\ c.op \in {"connect", "disconnect"} => ParamNames(req) = {}
                /\ c.op \in {"start", "stop"} => ParamNames(req) = {"token"}
                /\ c.op = "restart" => ParamNames(req) \subseteq {"token", "date"}
                /\ Param(req, "token") \subseteq {secret.value}
                /\ Param(req, "date")
                      \subseteq (IF c.when.isMoment THEN {FormatWhen(c.when)} ELSE {""})
    /\ \A i \in 1..Len(calls), j \in 1..Len(calls) :
          ( /\ calls[i].requests # <<>> /\ calls[j].requests # <<>>
            /\ PathOf(calls[i].op) = PathOf(calls[j].op)
            /\ calls[i].when = calls[j].when )
          => calls[i].requests[1].uri = calls[j].requests[1].uri

\* A request without a date, or without any parameter, was built after a
\* restart had put a token and a date on the shared URL object.
C20_Witness ==
    /\ Len(calls) >= 2
    /\ calls[1].op = "restart" /\ calls[1].when.isMoment
    /\ calls[1].requests # <<>>
    /\ calls[2].requests # <<>>
    /\ \/ calls[2].op = "connect"
       \/ calls[2].op = "restart" /\ ~calls[2].when.isMoment

====
